---- MODULE Spec2Model ----
(***************************************************************************)
(* Token lifecycle of the Moneytree extension (src/src/lib/auth.ts):       *)
(* ensureValidToken / getAccessToken, isAuthenticated, logout and login,   *)
(* run by concurrent async tasks against the one token store of the        *)
(* OAuth.PKCEClient.  A task's pc names the await it is suspended on; one  *)
(* action is the completion of that await together with the synchronous    *)
(* code that follows it, up to the next await or the return/throw.         *)
(***************************************************************************)
EXTENDS Integers, Sequences, FiniteSets, TLC

\* ------------------------------------------------------------------ bounds
NumTasks == 2     \* async tasks that may run operations concurrently
MaxIssued == 2    \* token responses the provider issues (ids 1..MaxIssued)
MaxTime == 1      \* clock ticks (minutes) in one behaviour
MaxSaves == 2     \* saveTokens() calls in one behaviour of storage.ts
MaxCookies == 2   \* cookies one response sets
MaxAttempts == 2  \* authorization requests (PKCE pairs) in one behaviour
MaxTags == 2      \* tags in the body of one login page
MaxClock == 5     \* minutes the clock of isTokenExpired() runs

\* --------------------------------------------------------------- constants
\* "Check if token is expired (with 5 minute buffer)", in minutes.
BufferMinutes == 5

Tasks == 1..NumTasks

\* Expiry instants (minutes) of the token set found at start: one inside the
\* buffer, one outside it (and on the buffer's edge one minute later).
InitExpiries == {BufferMinutes - 1, BufferMinutes + 1}

\* expires_in (minutes) of the provider's token responses.
ExpiresIn == BufferMinutes + 1

\* ------------------------------------------------------------- token store
\* client.getTokens() returning undefined/null.
NoTokenSet == [id |-> 0, rt |-> FALSE, exp |-> 0]

\* The TokenSet client.setTokens({accessToken, refreshToken, expiresIn})
\* stores: the response's tokens (id stands for the access token, rt says
\* whether a refresh token came with it) and the instant it expires.
NoResponse == [id |-> 0, rt |-> FALSE, expiresIn |-> 0]

TokenSetOf(tokenResponse, t) ==
    [id |-> tokenResponse.id, rt |-> tokenResponse.rt, exp |-> t + tokenResponse.expiresIn]

\* tokenSet.isExpired(): the outcomes it can have at instant t.  The set is
\* expired inside the 5 minute buffer and not expired outside it; exactly on
\* the buffer's edge the source does not say, so both outcomes are kept.
isExpired(tokenSet, t) ==
    IF tokenSet.exp - t < BufferMinutes THEN {TRUE}
    ELSE IF tokenSet.exp - t > BufferMinutes THEN {FALSE}
    ELSE {TRUE, FALSE}

\* ------------------------------------------------------------------- state
VARIABLES
    pc,            \* pc[t]: "idle", the await task t is suspended on, or "done"
    log,           \* log[t]: store accesses and requests of t's current/last call
    tokenSet,      \* tokenSet[t]: id of the set t's getTokens() read (0: none)
    resp,          \* resp[t]: tokenResponse held by t between two awaits
    result,        \* result[t]: what t's current/last call returned or threw
    store,         \* the TokenSet held by the OAuth client's storage
    tempVerifier,  \* LocalStorage[CODE_VERIFIER_KEY] present?
    cache,         \* the response cache holds data?
    now,           \* the clock, in minutes
    issued,        \* token responses issued by the provider so far
    serial         \* TRUE: operations never overlap (one caller at a time)

\* storage.ts: the four LocalStorage keys and the callers of its functions.
VARIABLES
    ls,            \* ls[k]: the value LocalStorage holds under STORAGE_KEYS[k]
    spc,           \* spc[t]: 0 idle, i: awaiting the i-th LocalStorage call, Done
    call,          \* call[t]: the storage function t runs and its arguments
    got,           \* got[t]: what t's getItem calls have returned so far
    ret,           \* ret[t]: what t's getStoredTokens() returned
    caught,        \* caught[t]: a LocalStorage call of t's rejected and the
                   \* catch block of the function ran
    lastSave,      \* arguments of the saveTokens() completed last, no save or
                   \* clear having started since
    cleared,       \* "once": a clearTokens() has returned and no saveTokens()
                   \* has started since; "again": two or more have; else "no"
    saves          \* saveTokens() calls made so far

storageVars == <<ls, spc, call, got, ret, caught, lastSave, cleared, saves>>

\* The session cookies of one login() attempt.
VARIABLES
    cookieStep,       \* the request of the attempt that is sent next
    pageSetCookies,   \* the cookies the login page response set
    loginSetCookies,  \* the cookies the login response set
    loginPageCookies, \* local of login(): the Cookie header of the login POST
    loginCookies      \* local of login(): the Cookie header of the authorize GET

cookieVars == <<cookieStep, pageSetCookies, loginSetCookies, loginPageCookies, loginCookies>>

\* The PKCE side of auth.ts: verifiers, authorization URLs and codes.
VARIABLES
    ppc,           \* ppc[t]: "idle" or the await task t is suspended on
    codeVerifier,  \* codeVerifier[t]: local, the verifier t generated or read
    code,          \* code[t]: the authorization code t holds, named by the
                   \* authorization request it was issued for
    verifierItem,  \* the verifier LocalStorage holds under CODE_VERIFIER_KEY
    generated,     \* authorization requests (PKCE pairs) generated so far
    urls,          \* the requests whose authorization URL the user was given
    exchange       \* the last token exchange request sent

pkceVars == <<ppc, codeVerifier, code, verifierItem, generated, urls, exchange>>

\* The helper functions that keep no state: their arguments and results.
VARIABLES
    html,              \* the body of the login page, as a sequence of markup tokens
    authenticityToken, \* <<>>, or <<what extractAuthenticityToken(html) returned>>
    dateNow,           \* Date.now(), in minutes
    expiresAtArg,      \* the argument of isTokenExpired, in minutes
    expired            \* what isTokenExpired(expiresAtArg) returned

helperVars == <<html, authenticityToken, dateNow, expiresAtArg, expired>>

\* The variables that the token lifecycle of auth.ts does not touch.
otherVars == <<storageVars, cookieVars, pkceVars, helperVars>>

authVars == <<pc, log, tokenSet, resp, result, store, tempVerifier, cache, now, issued>>

vars == <<authVars, serial, otherVars>>

NoExchange == [code |-> 0, codeVerifier |-> 0]

\* extractAuthenticityToken() returning null.
NoMatch == [found |-> FALSE, token |-> ""]

\* No helper function has been called.
HelpersIdle ==
    /\ html = <<>>
    /\ authenticityToken = <<>>
    /\ dateNow = 0
    /\ expiresAtArg = 0
    /\ expired = "not called"

\* No authorization is under way and no verifier is kept.
PkceIdle ==
    /\ ppc = [t \in Tasks |-> "idle"]
    /\ codeVerifier = [t \in Tasks |-> 0]
    /\ code = [t \in Tasks |-> 0]
    /\ verifierItem = 0
    /\ generated = 0
    /\ urls = {}
    /\ exchange = NoExchange

\* No login() attempt whose cookies are followed is running.
CookiesIdle ==
    /\ cookieStep = "GET login page"
    /\ pageSetCookies = <<>>
    /\ loginSetCookies = <<>>
    /\ loginPageCookies = <<>>
    /\ loginCookies = <<>>

\* ------------------------------------------------- storage.ts: LocalStorage
\* STORAGE_KEYS, in the order in which every function of storage.ts goes
\* through them.
StorageOrder == <<"ACCESS_TOKEN", "REFRESH_TOKEN", "EXPIRES_AT", "CODE_VERIFIER">>

StorageKeys == {StorageOrder[i] : i \in DOMAIN StorageOrder}

\* LocalStorage.getItem() of a key that is not there; also the optional
\* codeVerifier argument not given.
Undefined == 0

EmptyStorage == [k \in StorageKeys |-> Undefined]

\* spc[t] of a task whose storage call has returned.
Done == Len(StorageOrder) + 1

NoCall == [op |-> "none", accessToken |-> Undefined, refreshToken |-> Undefined,
           expiresIn |-> 0, createdAt |-> 0, codeVerifier |-> Undefined]

\* getStoredTokens() returning null.
NoStoredTokens == [access_token |-> Undefined, refresh_token |-> Undefined,
                   expires_at |-> Undefined, code_verifier |-> Undefined]

\* No caller of storage.ts is running and LocalStorage is empty.
StorageIdle ==
    /\ ls = EmptyStorage
    /\ spc = [t \in Tasks |-> 0]
    /\ call = [t \in Tasks |-> NoCall]
    /\ got = [t \in Tasks |-> EmptyStorage]
    /\ ret = [t \in Tasks |-> NoStoredTokens]
    /\ caught = [t \in Tasks |-> FALSE]
    /\ lastSave = NoCall
    /\ cleared = "no"
    /\ saves = 0

Ops == {"getAccessToken", "isAuthenticated", "logout", "login"}

Pending(op) == [op |-> op, kind |-> "pending", val |-> 0, err |-> ""]

InitStores ==
    {NoTokenSet} \cup
    {[id |-> 1, rt |-> r, exp |-> e] : r \in BOOLEAN, e \in InitExpiries}

AuthInit ==
    /\ pc = [t \in Tasks |-> "idle"]
    /\ log = [t \in Tasks |-> <<>>]
    /\ tokenSet = [t \in Tasks |-> 0]
    /\ resp = [t \in Tasks |-> NoResponse]
    /\ result = [t \in Tasks |-> Pending("none")]
    /\ store \in InitStores
    /\ tempVerifier = TRUE
    /\ cache = TRUE
    /\ now = 0
    /\ issued = store.id
    /\ serial \in BOOLEAN

\* No caller of auth.ts is running and nobody is logged in.
AuthIdle ==
    /\ pc = [t \in Tasks |-> "idle"]
    /\ log = [t \in Tasks |-> <<>>]
    /\ tokenSet = [t \in Tasks |-> 0]
    /\ resp = [t \in Tasks |-> NoResponse]
    /\ result = [t \in Tasks |-> Pending("none")]
    /\ store = NoTokenSet
    /\ tempVerifier = FALSE
    /\ cache = FALSE
    /\ now = 0
    /\ issued = 0

Init ==
    /\ AuthInit
    /\ StorageIdle
    /\ CookiesIdle
    /\ PkceIdle
    /\ HelpersIdle

\* ----------------------------------------------------------------- helpers
SeqHas(s, e) == \E i \in DOMAIN s : s[i] = e

IsPrefix(s, r) == Len(s) <= Len(r) /\ SubSeq(r, 1, Len(s)) = s

\* The first await of each exported function.
FirstPc(op) ==
    CASE op = "getAccessToken" -> "e_getTokens"
      [] op = "isAuthenticated" -> "ia_getTokens"
      [] op = "logout" -> "lo_removeTokens"
      [] op = "login" -> "li_authorizationRequest"

\* The log entry of a client.getTokens() that found ts.
GetTokens(ts) == IF ts = NoTokenSet THEN "getTokens: null" ELSE "getTokens: set"

\* Task t stays suspended, now on await p, having done the events es.  An
\* outcome still held by a caller is taken first.
Step(t, p, es) ==
    /\ \A u \in Tasks : pc[u] # "done"
    /\ pc' = [pc EXCEPT ![t] = p]
    /\ log' = [log EXCEPT ![t] = @ \o es]
    /\ UNCHANGED result
    /\ UNCHANGED otherVars

\* The same, the task's local variables unchanged.
Goto(t, p, es) ==
    /\ Step(t, p, es)
    /\ UNCHANGED <<tokenSet, resp>>

\* Task t's call ends (return or throw) after the events es.  Its caller
\* holds the outcome until Return; an outcome still held by another caller
\* is taken first (taking it touches nothing shared).
Finish(t, es, kind, val, err) ==
    /\ \A u \in Tasks : pc[u] # "done"
    /\ pc' = [pc EXCEPT ![t] = "done"]
    /\ log' = [log EXCEPT ![t] = @ \o es]
    /\ result' = [result EXCEPT ![t] = [op |-> @.op, kind |-> kind, val |-> val, err |-> err]]
    /\ tokenSet' = [tokenSet EXCEPT ![t] = 0]
    /\ resp' = [resp EXCEPT ![t] = NoResponse]
    /\ UNCHANGED otherVars

\* --------------------------------------------------------------- operations
\* A caller invokes one of the exported functions; it runs up to its first
\* await.  Idle tasks are interchangeable: the call takes the first one.
Call(t) ==
    /\ pc[t] = "idle"
    /\ \A u \in Tasks : u < t => pc[u] # "idle"
    /\ serial => \A u \in Tasks : pc[u] = "idle"
    /\ \A u \in Tasks : pc[u] # "done"
    /\ \E op \in Ops :
        /\ pc' = [pc EXCEPT ![t] = FirstPc(op)]
        /\ result' = [result EXCEPT ![t] = Pending(op)]
    /\ log' = [log EXCEPT ![t] = <<>>]
    /\ UNCHANGED <<tokenSet, resp, store, tempVerifier, cache, now, issued, serial>>
    /\ UNCHANGED otherVars

\* The caller has taken the call's outcome; the task is free again.
Return(t) ==
    /\ pc[t] = "done"
    /\ pc' = [pc EXCEPT ![t] = "idle"]
    /\ log' = [log EXCEPT ![t] = <<>>]
    /\ result' = [result EXCEPT ![t] = Pending("none")]
    /\ UNCHANGED <<tokenSet, resp, store, tempVerifier, cache, now, issued, serial>>
    /\ UNCHANGED otherVars

\* The clock advances.
Tick ==
    /\ now < MaxTime
    /\ \A u \in Tasks : pc[u] # "done"
    /\ now' = now + 1
    /\ UNCHANGED <<pc, log, tokenSet, resp, result, store, tempVerifier, cache, issued, serial>>
    /\ UNCHANGED otherVars

\* Mutant of isAuthenticatedValue: the expiry check is forgotten.
isAuthenticatedValue_NoExpiry(ts, t) ==
    IF ts = NoTokenSet THEN {FALSE} ELSE {TRUE}

\* isAuthenticated(): the value it returns on token set ts at instant t.
isAuthenticatedValue(ts, t) ==
    IF ts = NoTokenSet THEN {FALSE} ELSE {~e : e \in isExpired(ts, t)}

\* Mutant of IsAuthenticated: an expired set is removed on the way.
IsAuthenticated_Clearing(t) ==
    /\ pc[t] = "ia_getTokens"
    /\ \E b \in isAuthenticatedValue(store, now) :
        /\ Finish(t, <<GetTokens(store)>>, "bool", IF b THEN 1 ELSE 0, "")
        /\ store' = IF b THEN store ELSE NoTokenSet
    /\ UNCHANGED <<tempVerifier, cache, now, issued, serial>>

\* await client.getTokens(); false without a set or with an expired one.
IsAuthenticated(t) ==
    /\ pc[t] = "ia_getTokens"
    /\ \E b \in isAuthenticatedValue(store, now) :
        Finish(t, <<GetTokens(store)>>, "bool", IF b THEN 1 ELSE 0, "")
    /\ UNCHANGED <<store, tempVerifier, cache, now, issued, serial>>

\* ------------------------------------------------- ensureValidToken
\* The token responses the provider can answer a token request with.
TokenResponses(i) ==
    {[id |-> i, rt |-> TRUE, expiresIn |-> ExpiresIn]}

\* Mutant of EnsureNoTokens: without a set the login flow is started.
EnsureNoTokens_Relogin(t) ==
    /\ pc[t] = "e_getTokens"
    /\ store = NoTokenSet
    /\ Goto(t, "li_page", <<"getTokens: null", "authorizationRequest", "GET login page">>)
    /\ UNCHANGED <<store, tempVerifier, cache, now, issued, serial>>

\* getTokens() found nothing: throw "No authentication tokens found".
EnsureNoTokens(t) ==
    /\ pc[t] = "e_getTokens"
    /\ store = NoTokenSet
    /\ Finish(t, <<"getTokens: null">>, "error", 0, "NoTokens")
    /\ UNCHANGED <<store, tempVerifier, cache, now, issued, serial>>

\* Mutant of EnsureReturnStored: the stored token is returned unchecked.
EnsureReturnStored_Unchecked(t) ==
    /\ pc[t] = "e_getTokens"
    /\ store # NoTokenSet
    /\ Finish(t, <<"getTokens: set">>, "token", store.id, "")
    /\ UNCHANGED <<store, tempVerifier, cache, now, issued, serial>>

\* The set is not expired: return tokenSet.accessToken.
EnsureReturnStored(t) ==
    /\ pc[t] = "e_getTokens"
    /\ store # NoTokenSet
    /\ FALSE \in isExpired(store, now)
    /\ Finish(t, <<"getTokens: set">>, "token", store.id, "")
    /\ UNCHANGED <<store, tempVerifier, cache, now, issued, serial>>

\* Mutant of EnsureStartRefresh: a set with a refresh token is refreshed
\* whether expired or not.
EnsureStartRefresh_Eager(t) ==
    /\ pc[t] = "e_getTokens"
    /\ store # NoTokenSet
    /\ store.rt
    /\ tokenSet' = [tokenSet EXCEPT ![t] = store.id]
    /\ Step(t, "e_refresh", <<"getTokens: set", "POST refresh">>)
    /\ UNCHANGED resp
    /\ UNCHANGED <<store, tempVerifier, cache, now, issued, serial>>

\* The set is expired and has a refresh token: send the refresh request.
EnsureStartRefresh(t) ==
    /\ pc[t] = "e_getTokens"
    /\ store # NoTokenSet
    /\ TRUE \in isExpired(store, now)
    /\ store.rt
    /\ tokenSet' = [tokenSet EXCEPT ![t] = store.id]
    /\ Step(t, "e_refresh", <<"getTokens: set", "POST refresh">>)
    /\ UNCHANGED resp
    /\ UNCHANGED <<store, tempVerifier, cache, now, issued, serial>>

\* Mutant of EnsureNoRefreshToken: the error is thrown, the set is kept.
EnsureNoRefreshToken_KeepsSet(t) ==
    /\ pc[t] = "e_getTokens"
    /\ store # NoTokenSet
    /\ TRUE \in isExpired(store, now)
    /\ ~store.rt
    /\ Finish(t, <<"getTokens: set", "removeTokens">>, "error", 0, "RefreshFailed")
    /\ UNCHANGED <<store, tempVerifier, cache, now, issued, serial>>

\* The set is expired and has no refresh token: the throw inside the try is
\* caught, and the handler awaits client.removeTokens().
EnsureNoRefreshToken(t) ==
    /\ pc[t] = "e_getTokens"
    /\ store # NoTokenSet
    /\ TRUE \in isExpired(store, now)
    /\ ~store.rt
    /\ tokenSet' = [tokenSet EXCEPT ![t] = store.id]
    /\ Step(t, "e_removeTokens", <<"getTokens: set">>)
    /\ UNCHANGED resp
    /\ UNCHANGED <<store, tempVerifier, cache, now, issued, serial>>

\* refreshAccessToken() resolves: the provider answered 2xx with a new
\* token response; the task goes on to await client.setTokens().
RefreshOk(t) ==
    /\ pc[t] = "e_refresh"
    /\ issued < MaxIssued
    /\ \E r \in TokenResponses(issued + 1) : resp' = [resp EXCEPT ![t] = r]
    /\ issued' = issued + 1
    /\ Step(t, "e_setTokens", <<"refresh ok">>)
    /\ UNCHANGED tokenSet
    /\ UNCHANGED <<store, tempVerifier, cache, now, serial>>

\* Mutant of RefreshFailed: the error is thrown on, the set is kept.
RefreshFailed_Rethrow(t) ==
    /\ pc[t] = "e_refresh"
    /\ Finish(t, <<"refresh failed">>, "error", 0, "RefreshFailed")
    /\ UNCHANGED <<store, tempVerifier, cache, now, issued, serial>>

\* refreshAccessToken() rejects (non-2xx answer or network error): the
\* handler awaits client.removeTokens().
RefreshFailed(t) ==
    /\ pc[t] = "e_refresh"
    /\ Goto(t, "e_removeTokens", <<"refresh failed">>)
    /\ UNCHANGED <<store, tempVerifier, cache, now, issued, serial>>

\* Mutant of EnsureSetTokens: the expiry of the old set survives.
EnsureSetTokens_KeepsExpiry(t) ==
    /\ pc[t] = "e_setTokens"
    /\ store' = [TokenSetOf(resp[t], now) EXCEPT !.exp = store.exp]
    /\ Finish(t, <<"setTokens">>, "token", resp[t].id, "")
    /\ UNCHANGED <<tempVerifier, cache, now, issued, serial>>

\* client.setTokens() completes; return tokenResponse.access_token.
EnsureSetTokens(t) ==
    /\ pc[t] = "e_setTokens"
    /\ store' = TokenSetOf(resp[t], now)
    /\ Finish(t, <<"setTokens">>, "token", resp[t].id, "")
    /\ UNCHANGED <<tempVerifier, cache, now, issued, serial>>

\* The refresh-failure handler: client.removeTokens() completes; throw
\* "Token refresh failed".
EnsureRemoveTokens(t) ==
    /\ pc[t] = "e_removeTokens"
    /\ store' = NoTokenSet
    /\ Finish(t, <<"removeTokens">>, "error", 0, "RefreshFailed")
    /\ UNCHANGED <<tempVerifier, cache, now, issued, serial>>

\* ----------------------------------------------------------------- logout
\* Mutant of LogoutRemoveTokens: logout returns before removing anything.
LogoutRemoveTokens_ReturnsEarly(t) ==
    /\ pc[t] = "lo_removeTokens"
    /\ Finish(t, <<>>, "void", 0, "")
    /\ UNCHANGED <<store, tempVerifier, cache, now, issued, serial>>

\* await client.removeTokens()
LogoutRemoveTokens(t) ==
    /\ pc[t] = "lo_removeTokens"
    /\ store' = NoTokenSet
    /\ Goto(t, "lo_removeItem", <<"removeTokens">>)
    /\ UNCHANGED <<tempVerifier, cache, now, issued, serial>>

\* await LocalStorage.removeItem(CODE_VERIFIER_KEY); clearCache(); then the
\* 250 ms timer is started.
LogoutRemoveItem(t) ==
    /\ pc[t] = "lo_removeItem"
    /\ tempVerifier' = FALSE
    /\ cache' = FALSE
    /\ Goto(t, "lo_wait", <<"removeItem", "clearCache">>)
    /\ UNCHANGED <<store, now, issued, serial>>

\* The timer fires; client.getTokens() is called.
LogoutWait(t) ==
    /\ pc[t] = "lo_wait"
    /\ Goto(t, "lo_getTokens", <<>>)
    /\ UNCHANGED <<store, tempVerifier, cache, now, issued, serial>>

\* Verification found no token set: logout returns.
LogoutVerified(t) ==
    /\ pc[t] = "lo_getTokens"
    /\ store = NoTokenSet
    /\ Finish(t, <<"getTokens: null">>, "void", 0, "")
    /\ UNCHANGED <<store, tempVerifier, cache, now, issued, serial>>

\* Verification found a token set: force clear, await client.removeTokens().
LogoutStillThere(t) ==
    /\ pc[t] = "lo_getTokens"
    /\ store # NoTokenSet
    /\ Goto(t, "lo_forceRemove", <<"getTokens: set">>)
    /\ UNCHANGED <<store, tempVerifier, cache, now, issued, serial>>

\* The second client.removeTokens() completes; the second timer is started.
LogoutForceRemove(t) ==
    /\ pc[t] = "lo_forceRemove"
    /\ store' = NoTokenSet
    /\ Goto(t, "lo_forceWait", <<"removeTokens">>)
    /\ UNCHANGED <<tempVerifier, cache, now, issued, serial>>

\* The second timer fires; client.getTokens() is called.
LogoutForceWait(t) ==
    /\ pc[t] = "lo_forceWait"
    /\ Goto(t, "lo_finalGetTokens", <<>>)
    /\ UNCHANGED <<store, tempVerifier, cache, now, issued, serial>>

\* Mutant of LogoutFinalVerify: the force clear is repeated until it works.
LogoutFinalVerify_Retry(t) ==
    /\ pc[t] = "lo_finalGetTokens"
    /\ IF store = NoTokenSet
         THEN Finish(t, <<"getTokens: null">>, "void", 0, "")
         ELSE Goto(t, "lo_forceRemove", <<"getTokens: set">>)
    /\ UNCHANGED <<store, tempVerifier, cache, now, issued, serial>>

\* Final verification: whatever it finds is only logged; logout returns.
LogoutFinalVerify(t) ==
    /\ pc[t] = "lo_finalGetTokens"
    /\ Finish(t, <<GetTokens(store)>>, "void", 0, "")
    /\ UNCHANGED <<store, tempVerifier, cache, now, issued, serial>>

\* ------------------------------------------------------------------ login
\* What the provider can answer to each request of the login flow.
LoginPageOutcomes == {"page ok", "page not ok", "page without csrf token"}
LoginSubmitOutcomes == {"login 200 or 302", "login other status"}
AuthorizeOutcomes ==
    {"no location", "unparseable location", "location without code", "location with code"}

\* extractCodeFromUrl(url): is there a code?  null for a URL that does not
\* parse and for one without a code parameter.
extractCodeFromUrl(url) == url = "location with code"

\* await client.authorizationRequest(): the PKCE parameters are made and the
\* login page is requested.
LoginAuthorizationRequest(t) ==
    /\ pc[t] = "li_authorizationRequest"
    /\ Goto(t, "li_page", <<"authorizationRequest", "GET login page">>)
    /\ UNCHANGED <<store, tempVerifier, cache, now, issued, serial>>

\* Mutant of LoginPage: the credentials are posted without a CSRF token,
\* and a page that is ok is followed by the authorize request at once.
LoginPage_Careless(t) ==
    /\ pc[t] = "li_page"
    /\ \E o \in LoginPageOutcomes :
        CASE o = "page not ok" -> Finish(t, <<o>>, "error", 0, "LoginPageFailed")
          [] o = "page without csrf token" -> Goto(t, "li_submit", <<o, "POST login">>)
          [] o = "page ok" -> Goto(t, "li_authorize", <<o, "GET authorize">>)
    /\ UNCHANGED <<store, tempVerifier, cache, now, issued, serial>>

\* The login page answer: not ok, or no CSRF token in it, is fatal;
\* otherwise the credentials are posted.
LoginPage(t) ==
    /\ pc[t] = "li_page"
    /\ \E o \in LoginPageOutcomes :
        CASE o = "page not ok" -> Finish(t, <<o>>, "error", 0, "LoginPageFailed")
          [] o = "page without csrf token" -> Finish(t, <<o>>, "error", 0, "NoCsrfToken")
          [] o = "page ok" -> Goto(t, "li_submit", <<o, "POST login">>)
    /\ UNCHANGED <<store, tempVerifier, cache, now, issued, serial>>

\* Mutant of LoginSubmit: rejected credentials are posted again.
LoginSubmit_Retry(t) ==
    /\ pc[t] = "li_submit"
    /\ \E o \in LoginSubmitOutcomes :
        CASE o = "login other status" ->
                IF SeqHas(log[t], o)
                  THEN Finish(t, <<o>>, "error", 0, "LoginFailed")
                  ELSE Goto(t, "li_submit", <<o, "POST login">>)
          [] o = "login 200 or 302" -> Goto(t, "li_authorize", <<o, "GET authorize">>)
    /\ UNCHANGED <<store, tempVerifier, cache, now, issued, serial>>

\* The login answer: a status other than 200 and 302 is fatal; otherwise the
\* authorize endpoint is requested.
LoginSubmit(t) ==
    /\ pc[t] = "li_submit"
    /\ \E o \in LoginSubmitOutcomes :
        CASE o = "login other status" -> Finish(t, <<o>>, "error", 0, "LoginFailed")
          [] o = "login 200 or 302" -> Goto(t, "li_authorize", <<o, "GET authorize">>)
    /\ UNCHANGED <<store, tempVerifier, cache, now, issued, serial>>

\* Mutant of LoginAuthorize: whatever Location holds is exchanged.
LoginAuthorize_ExchangesAnyway(t) ==
    /\ pc[t] = "li_authorize"
    /\ \E o \in AuthorizeOutcomes :
        CASE o = "no location" -> Finish(t, <<o>>, "error", 0, "NoLocation")
          [] OTHER -> Goto(t, "li_exchange", <<o, "POST exchange">>)
    /\ UNCHANGED <<store, tempVerifier, cache, now, issued, serial>>

\* The authorize answer: no Location header, or no code in it, is fatal;
\* otherwise the code is exchanged.
LoginAuthorize(t) ==
    /\ pc[t] = "li_authorize"
    /\ \E o \in AuthorizeOutcomes :
        CASE o = "no location" -> Finish(t, <<o>>, "error", 0, "NoLocation")
          [] o # "no location" /\ ~extractCodeFromUrl(o) -> Finish(t, <<o>>, "error", 0, "NoCode")
          [] extractCodeFromUrl(o) -> Goto(t, "li_exchange", <<o, "POST exchange">>)
    /\ UNCHANGED <<store, tempVerifier, cache, now, issued, serial>>

\* exchangeCodeForToken() resolves with a token response; the task goes on
\* to await client.setTokens().
LoginExchangeOk(t) ==
    /\ pc[t] = "li_exchange"
    /\ issued < MaxIssued
    /\ \E r \in TokenResponses(issued + 1) : resp' = [resp EXCEPT ![t] = r]
    /\ issued' = issued + 1
    /\ Step(t, "li_setTokens", <<"exchange ok">>)
    /\ UNCHANGED tokenSet
    /\ UNCHANGED <<store, tempVerifier, cache, now, serial>>

\* exchangeCodeForToken() throws (non-2xx answer): login throws.
LoginExchangeFailed(t) ==
    /\ pc[t] = "li_exchange"
    /\ Finish(t, <<"exchange failed">>, "error", 0, "ExchangeFailed")
    /\ UNCHANGED <<store, tempVerifier, cache, now, issued, serial>>

\* Mutant of LoginSetTokens: the code verifier of the attempt is left in
\* LocalStorage.
LoginSetTokens_KeepsVerifier(t) ==
    /\ pc[t] = "li_setTokens"
    /\ store' = TokenSetOf(resp[t], now)
    /\ tempVerifier' = TRUE
    /\ Finish(t, <<"setTokens">>, "token", resp[t].id, "")
    /\ UNCHANGED <<cache, now, issued, serial>>

\* client.setTokens() completes; return tokenResponse.access_token.
LoginSetTokens(t) ==
    /\ pc[t] = "li_setTokens"
    /\ store' = TokenSetOf(resp[t], now)
    /\ Finish(t, <<"setTokens">>, "token", resp[t].id, "")
    /\ UNCHANGED <<tempVerifier, cache, now, issued, serial>>

Next ==
    \/ \E t \in Tasks : Call(t)
    \/ \E t \in Tasks : Return(t)
    \/ Tick
    \/ \E t \in Tasks : IsAuthenticated(t)
    \/ \E t \in Tasks : EnsureNoTokens(t)
    \/ \E t \in Tasks : EnsureReturnStored(t)
    \/ \E t \in Tasks : EnsureStartRefresh(t)
    \/ \E t \in Tasks : EnsureNoRefreshToken(t)
    \/ \E t \in Tasks : RefreshOk(t)
    \/ \E t \in Tasks : RefreshFailed(t)
    \/ \E t \in Tasks : EnsureSetTokens(t)
    \/ \E t \in Tasks : EnsureRemoveTokens(t)
    \/ \E t \in Tasks : LogoutRemoveTokens(t)
    \/ \E t \in Tasks : LogoutRemoveItem(t)
    \/ \E t \in Tasks : LogoutWait(t)
    \/ \E t \in Tasks : LogoutVerified(t)
    \/ \E t \in Tasks : LogoutStillThere(t)
    \/ \E t \in Tasks : LogoutForceRemove(t)
    \/ \E t \in Tasks : LogoutForceWait(t)
    \/ \E t \in Tasks : LogoutFinalVerify(t)
    \/ \E t \in Tasks : LoginAuthorizationRequest(t)
    \/ \E t \in Tasks : LoginPage(t)
    \/ \E t \in Tasks : LoginSubmit(t)
    \/ \E t \in Tasks : LoginAuthorize(t)
    \/ \E t \in Tasks : LoginExchangeOk(t)
    \/ \E t \in Tasks : LoginExchangeFailed(t)
    \/ \E t \in Tasks : LoginSetTokens(t)

Spec == Init /\ [][Next]_vars

\* ------------------------------------------------------------- storage.ts
\* "(createdAt + expiresIn) * 1000; // Convert to milliseconds"
MsPerSecond == 1000

expiresAtOf(createdAt, expiresIn) == (createdAt + expiresIn) * MsPerSecond

\* The arguments of the i-th saveTokens() call: the tokens of the i-th token
\* response, received at second i, with or without a code verifier.
SaveCalls(i) ==
    {[op |-> "saveTokens", accessToken |-> i, refreshToken |-> i,
      expiresIn |-> ExpiresIn, createdAt |-> i, codeVerifier |-> v] :
        v \in {Undefined, i}}

\* The value saveTokens(...) puts under key k.
SavedValue(c, k) ==
    CASE k = "ACCESS_TOKEN" -> c.accessToken
      [] k = "REFRESH_TOKEN" -> c.refreshToken
      [] k = "EXPIRES_AT" -> expiresAtOf(c.createdAt, c.expiresIn)
      [] k = "CODE_VERIFIER" -> c.codeVerifier

\* LocalStorage after a saveTokens(...) that ran alone on the empty storage.
StoredBy(c) == [k \in StorageKeys |-> SavedValue(c, k)]

\* Mutant of storedTokens: only the access token is required.
storedTokens_AccessTokenOnly(g) ==
    IF g["ACCESS_TOKEN"] = Undefined
      THEN NoStoredTokens
      ELSE [access_token |-> g["ACCESS_TOKEN"], refresh_token |-> g["REFRESH_TOKEN"],
            expires_at |-> g["EXPIRES_AT"], code_verifier |-> g["CODE_VERIFIER"]]

\* What getStoredTokens() returns from the four values g it has read:
\* null if one of the first three is falsy, else the record, the verifier
\* undefined if it is falsy.
storedTokens(g) ==
    IF \/ g["ACCESS_TOKEN"] = Undefined
       \/ g["REFRESH_TOKEN"] = Undefined
       \/ g["EXPIRES_AT"] = Undefined
      THEN NoStoredTokens
      ELSE [access_token |-> g["ACCESS_TOKEN"], refresh_token |-> g["REFRESH_TOKEN"],
            expires_at |-> g["EXPIRES_AT"], code_verifier |-> g["CODE_VERIFIER"]]

\* LocalStorage is empty or holds what an earlier saveTokens() left.
StorageInit ==
    /\ AuthIdle
    /\ CookiesIdle
    /\ PkceIdle
    /\ HelpersIdle
    /\ serial \in BOOLEAN
    /\ ls \in {EmptyStorage} \cup {StoredBy(c) : c \in SaveCalls(1)}
    /\ saves = IF ls = EmptyStorage THEN 0 ELSE 1
    /\ spc = [t \in Tasks |-> 0]
    /\ call = [t \in Tasks |-> NoCall]
    /\ got = [t \in Tasks |-> EmptyStorage]
    /\ ret = [t \in Tasks |-> NoStoredTokens]
    /\ caught = [t \in Tasks |-> FALSE]
    /\ lastSave = NoCall
    /\ cleared = "no"

\* The calls of storage.ts a caller can make now.
StorageCalls ==
    (IF saves < MaxSaves THEN SaveCalls(saves + 1) ELSE {}) \cup
    {[NoCall EXCEPT !.op = "clearTokens"], [NoCall EXCEPT !.op = "getStoredTokens"]}

\* A caller invokes saveTokens, clearTokens or getStoredTokens; the function
\* runs up to its first await.
StorageCall(t) ==
    /\ spc[t] = 0
    /\ \A u \in Tasks : u < t => spc[u] # 0
    /\ serial => \A u \in Tasks : spc[u] = 0
    /\ \E c \in StorageCalls :
        /\ call' = [call EXCEPT ![t] = c]
        /\ saves' = IF c.op = "saveTokens" THEN saves + 1 ELSE saves
        /\ lastSave' = IF c.op = "getStoredTokens" THEN lastSave ELSE NoCall
        /\ cleared' = IF c.op = "saveTokens" THEN "no" ELSE cleared
    /\ spc' = [spc EXCEPT ![t] = 1]
    /\ UNCHANGED <<ls, got, ret, caught>>
    /\ UNCHANGED <<authVars, serial, cookieVars, pkceVars, helperVars>>

\* saveTokens: the awaited LocalStorage.setItem() completes.  The verifier
\* is written only if one was given.
SaveTokensSetItem(t) ==
    /\ call[t].op = "saveTokens"
    /\ spc[t] \in DOMAIN StorageOrder
    /\ LET k == StorageOrder[spc[t]]
           last == \/ k = "CODE_VERIFIER"
                   \/ k = "EXPIRES_AT" /\ call[t].codeVerifier = Undefined
       IN /\ ls' = [ls EXCEPT ![k] = SavedValue(call[t], k)]
          /\ spc' = [spc EXCEPT ![t] = IF last THEN Done ELSE @ + 1]
          /\ lastSave' = IF last /\ serial THEN call[t] ELSE lastSave
    /\ UNCHANGED <<call, got, ret, caught, cleared, saves>>
    /\ UNCHANGED <<authVars, serial, cookieVars, pkceVars, helperVars>>

\* Mutant of ClearTokensRemoveItem: the code verifier is left in place.
ClearTokensRemoveItem_KeepsVerifier(t) ==
    /\ call[t].op = "clearTokens"
    /\ spc[t] \in DOMAIN StorageOrder
    /\ ls' = IF StorageOrder[spc[t]] = "CODE_VERIFIER"
               THEN ls ELSE [ls EXCEPT ![StorageOrder[spc[t]]] = Undefined]
    /\ spc' = [spc EXCEPT ![t] = @ + 1]
    /\ cleared' = IF spc[t] + 1 = Done /\ serial
                    THEN (IF cleared = "no" THEN "once" ELSE "again")
                    ELSE cleared
    /\ UNCHANGED <<call, got, ret, caught, lastSave, saves>>
    /\ UNCHANGED <<authVars, serial, cookieVars, pkceVars, helperVars>>

\* clearTokens: the awaited LocalStorage.removeItem() completes.
ClearTokensRemoveItem(t) ==
    /\ call[t].op = "clearTokens"
    /\ spc[t] \in DOMAIN StorageOrder
    /\ ls' = [ls EXCEPT ![StorageOrder[spc[t]]] = Undefined]
    /\ spc' = [spc EXCEPT ![t] = @ + 1]
    /\ cleared' = IF spc[t] + 1 = Done /\ serial
                    THEN (IF cleared = "no" THEN "once" ELSE "again")
                    ELSE cleared
    /\ UNCHANGED <<call, got, ret, caught, lastSave, saves>>
    /\ UNCHANGED <<authVars, serial, cookieVars, pkceVars, helperVars>>

\* getStoredTokens: the awaited LocalStorage.getItem() completes; after the
\* fourth the function returns.
GetStoredTokensGetItem(t) ==
    /\ call[t].op = "getStoredTokens"
    /\ spc[t] \in DOMAIN StorageOrder
    /\ LET k == StorageOrder[spc[t]]
           g == [got[t] EXCEPT ![k] = ls[k]]
       IN /\ got' = [got EXCEPT ![t] = g]
          /\ ret' = [ret EXCEPT ![t] = IF spc[t] + 1 = Done THEN storedTokens(g) ELSE @]
    /\ spc' = [spc EXCEPT ![t] = @ + 1]
    /\ UNCHANGED <<ls, call, caught, lastSave, cleared, saves>>
    /\ UNCHANGED <<authVars, serial, cookieVars, pkceVars, helperVars>>

\* The awaited LocalStorage call of saveTokens or clearTokens rejects: the
\* catch block logs the error and throws it again; what the function has
\* written or removed so far stays.
StorageCatchRethrow(t) ==
    /\ call[t].op \in {"saveTokens", "clearTokens"}
    /\ spc[t] \in DOMAIN StorageOrder
    /\ spc' = [spc EXCEPT ![t] = Done]
    /\ caught' = [caught EXCEPT ![t] = TRUE]
    /\ UNCHANGED <<ls, call, got, ret, lastSave, cleared, saves>>
    /\ UNCHANGED <<authVars, serial, cookieVars, pkceVars, helperVars>>

\* The awaited LocalStorage.getItem() of getStoredTokens rejects: the catch
\* block logs the error and returns null.
GetStoredTokensCatch(t) ==
    /\ call[t].op = "getStoredTokens"
    /\ spc[t] \in DOMAIN StorageOrder
    /\ spc' = [spc EXCEPT ![t] = Done]
    /\ caught' = [caught EXCEPT ![t] = TRUE]
    /\ ret' = [ret EXCEPT ![t] = NoStoredTokens]
    /\ UNCHANGED <<ls, call, got, lastSave, cleared, saves>>
    /\ UNCHANGED <<authVars, serial, cookieVars, pkceVars, helperVars>>

\* The caller has taken the outcome of its storage call.
StorageReturn(t) ==
    /\ spc[t] = Done
    /\ spc' = [spc EXCEPT ![t] = 0]
    /\ call' = [call EXCEPT ![t] = NoCall]
    /\ got' = [got EXCEPT ![t] = EmptyStorage]
    /\ ret' = [ret EXCEPT ![t] = NoStoredTokens]
    /\ caught' = [caught EXCEPT ![t] = FALSE]
    /\ UNCHANGED <<ls, lastSave, cleared, saves>>
    /\ UNCHANGED <<authVars, serial, cookieVars, pkceVars, helperVars>>

StorageNext ==
    \/ \E t \in Tasks : StorageCall(t)
    \/ \E t \in Tasks : SaveTokensSetItem(t)
    \/ \E t \in Tasks : ClearTokensRemoveItem(t)
    \/ \E t \in Tasks : GetStoredTokensGetItem(t)
    \/ \E t \in Tasks : StorageCatchRethrow(t)
    \/ \E t \in Tasks : GetStoredTokensCatch(t)
    \/ \E t \in Tasks : StorageReturn(t)

SpecStorage == StorageInit /\ [][StorageNext]_vars

\* The callers of storage.ts take turns: no two calls overlap.
StorageSerialInit == StorageInit /\ serial

SpecStorageSerial == StorageSerialInit /\ [][StorageNext]_vars

\* ------------------------------------------------ session cookies of login
\* Header texts are sequences of tokens: a name=value pair, ";" or ",".
Pair(n, v) == [k |-> "pair", n |-> n, v |-> v]
Semicolon == [k |-> ";", n |-> "", v |-> 0]
Comma == [k |-> ",", n |-> "", v |-> 0]

\* The cookies a response can set: name, value, and whether an attribute
\* (as "; Path=/") follows the pair.
CookieNames == {"a", "b"}
CookieValues == {1, 2}
Cookies == [n : CookieNames, v : CookieValues, attr : BOOLEAN]
CookieLists == UNION {[1..k -> Cookies] : k \in 0..MaxCookies}

\* response.headers.get("set-cookie") of a response that set the cookies
\* cs: the Set-Cookie lines joined by ", "; null (no text) if there is none.
RECURSIVE SetCookieHeader(_)
SetCookieHeader(cs) ==
    IF cs = <<>> THEN <<>>
    ELSE LET c == Head(cs)
             line == <<Pair(c.n, c.v)>> \o
                     (IF c.attr THEN <<Semicolon, Pair("Path", 0)>> ELSE <<>>)
         IN IF Len(cs) = 1 THEN line
            ELSE line \o <<Comma>> \o SetCookieHeader(Tail(cs))

\* The least element of a non-empty set of numbers.
Min(S) == CHOOSE i \in S : \A j \in S : i <= j

\* text.split(/,\s*(?=\w+=)/): cut at each "," that a name=value follows.
RECURSIVE SplitCookies(_)
SplitCookies(text) ==
    LET cuts == {i \in 1..(Len(text) - 1) : text[i] = Comma /\ text[i + 1].k = "pair"}
    IN IF cuts = {} THEN <<text>>
       ELSE <<SubSeq(text, 1, Min(cuts) - 1)>> \o
            SplitCookies(SubSeq(text, Min(cuts) + 1, Len(text)))

\* cookieString.match(/^([^;]+)/): the text before the first ";".
NameValue(cookieString) ==
    LET semis == {i \in DOMAIN cookieString : cookieString[i] = Semicolon}
    IN IF semis = {} THEN cookieString
       ELSE SubSeq(cookieString, 1, Min(semis) - 1)

\* parts.join("; ")
RECURSIVE JoinCookies(_)
JoinCookies(parts) ==
    IF parts = <<>> THEN <<>>
    ELSE IF Len(parts) = 1 THEN parts[1]
    ELSE parts[1] \o <<Semicolon>> \o JoinCookies(Tail(parts))

NonEmpty(text) == text # <<>>

\* parseCookies(setCookieHeader): "" for null, else the name=value part of
\* each piece of the header, joined by "; ".
parseCookies(setCookieHeader) ==
    IF setCookieHeader = <<>> THEN <<>>
    ELSE LET cookieStrings == SplitCookies(setCookieHeader)
             cookies == [i \in DOMAIN cookieStrings |-> NameValue(cookieStrings[i])]
         IN JoinCookies(SelectSeq(cookies, NonEmpty))

\* mergeCookies(...cookieHeaders): parseCookies of each header that is not
\* empty, joined by "; ".
mergeCookies(cookieHeaders) ==
    LET parsed == [i \in DOMAIN cookieHeaders |-> parseCookies(cookieHeaders[i])]
    IN JoinCookies(SelectSeq(parsed, NonEmpty))

\* The login page response arrives with its cookies:
\* loginPageCookies = mergeCookies(loginPageResponse.headers.get("set-cookie")),
\* sent as Cookie header with the login POST.
CookiesOfLoginPage ==
    /\ cookieStep = "GET login page"
    /\ \E cs \in CookieLists :
        /\ pageSetCookies' = cs
        /\ loginPageCookies' = mergeCookies(<<SetCookieHeader(cs)>>)
    /\ cookieStep' = "POST login"
    /\ UNCHANGED <<loginSetCookies, loginCookies>>
    /\ UNCHANGED <<authVars, serial, storageVars, pkceVars, helperVars>>

\* The login response arrives with its cookies: loginCookies =
\* mergeCookies(loginPageCookies, loginResponse.headers.get("set-cookie")),
\* sent as Cookie header with the authorize GET.
CookiesOfLogin ==
    /\ cookieStep = "POST login"
    /\ \E cs \in CookieLists :
        /\ loginSetCookies' = cs
        /\ loginCookies' = mergeCookies(<<loginPageCookies, SetCookieHeader(cs)>>)
    /\ cookieStep' = "GET authorize"
    /\ UNCHANGED <<pageSetCookies, loginPageCookies>>
    /\ UNCHANGED <<authVars, serial, storageVars, pkceVars, helperVars>>

CookiesInit ==
    /\ AuthIdle
    /\ serial = TRUE
    /\ StorageIdle
    /\ CookiesIdle
    /\ PkceIdle
    /\ HelpersIdle

CookiesNext ==
    \/ CookiesOfLoginPage
    \/ CookiesOfLogin

SpecCookies == CookiesInit /\ [][CookiesNext]_vars

\* ------------------------------------------- PKCE verifier, URLs and codes
\* What the steps below leave alone: the callers of the token lifecycle, the
\* clock, storage.ts and the cookies.
pkceFrame == <<pc, log, tokenSet, resp, result, now, issued, serial, storageVars, cookieVars,
               helperVars>>

\* Task t's call returns or throws: its locals are gone.
PkceEnd(t) ==
    /\ ppc' = [ppc EXCEPT ![t] = "idle"]
    /\ codeVerifier' = [codeVerifier EXCEPT ![t] = 0]
    /\ code' = [code EXCEPT ![t] = 0]

\* Task t stays suspended, now on await p.
PkceGoto(t, p) ==
    /\ ppc' = [ppc EXCEPT ![t] = p]
    /\ UNCHANGED <<codeVerifier, code>>

\* A caller invokes getAuthorizationUrl(), login(), logout(), or
\* authenticateWithCode(c) with the code c the provider issued to the user
\* for one of the authorization URLs handed out.
PkceCall(t) ==
    /\ ppc[t] = "idle"
    /\ \A u \in Tasks : u < t => ppc[u] # "idle"
    /\ \/ /\ generated < MaxAttempts
          /\ \E p \in {"gau_authorizationRequest", "pl_authorizationRequest"} :
                ppc' = [ppc EXCEPT ![t] = p]
          /\ UNCHANGED code
       \/ /\ \E c \in urls : code' = [code EXCEPT ![t] = c]
          /\ ppc' = [ppc EXCEPT ![t] = "awc_getItem"]
       \/ /\ ppc' = [ppc EXCEPT ![t] = "plo_removeTokens"]
          /\ UNCHANGED code
    /\ UNCHANGED <<codeVerifier, verifierItem, generated, urls, exchange>>
    /\ UNCHANGED <<store, tempVerifier, cache>>
    /\ UNCHANGED pkceFrame

\* getAuthorizationUrl: client.authorizationRequest() resolves with a fresh
\* PKCE pair; LocalStorage.setItem(CODE_VERIFIER_KEY, ...) is awaited.
GetUrlAuthorizationRequest(t) ==
    /\ ppc[t] = "gau_authorizationRequest"
    /\ generated < MaxAttempts
    /\ generated' = generated + 1
    /\ codeVerifier' = [codeVerifier EXCEPT ![t] = generated + 1]
    /\ ppc' = [ppc EXCEPT ![t] = "gau_setItem"]
    /\ UNCHANGED <<code, verifierItem, urls, exchange>>
    /\ UNCHANGED <<store, tempVerifier, cache>>
    /\ UNCHANGED pkceFrame

\* getAuthorizationUrl: the verifier is stored, replacing the one that was
\* there; the URL with this request's challenge is returned.
GetUrlSetItem(t) ==
    /\ ppc[t] = "gau_setItem"
    /\ verifierItem' = codeVerifier[t]
    /\ tempVerifier' = TRUE
    /\ urls' = urls \cup {codeVerifier[t]}
    /\ PkceEnd(t)
    /\ UNCHANGED <<generated, exchange>>
    /\ UNCHANGED <<store, cache>>
    /\ UNCHANGED pkceFrame

\* authenticateWithCode: LocalStorage.getItem(CODE_VERIFIER_KEY) resolves.
\* Without a verifier the call throws; else the code is sent for exchange
\* with the verifier found.
AuthCodeGetItem(t) ==
    /\ ppc[t] = "awc_getItem"
    /\ IF verifierItem = 0
         THEN /\ PkceEnd(t)
              /\ UNCHANGED exchange
         ELSE /\ codeVerifier' = [codeVerifier EXCEPT ![t] = verifierItem]
              /\ exchange' = [code |-> code[t], codeVerifier |-> verifierItem]
              /\ ppc' = [ppc EXCEPT ![t] = "awc_exchange"]
              /\ UNCHANGED code
    /\ UNCHANGED <<verifierItem, generated, urls>>
    /\ UNCHANGED <<store, tempVerifier, cache>>
    /\ UNCHANGED pkceFrame

\* authenticateWithCode: exchangeCodeForToken() resolves; the provider
\* accepts a code only with the verifier of the request it issued it for.
AuthCodeExchangeOk(t) ==
    /\ ppc[t] = "awc_exchange"
    /\ code[t] = codeVerifier[t]
    /\ PkceGoto(t, "awc_setTokens")
    /\ UNCHANGED <<verifierItem, generated, urls, exchange>>
    /\ UNCHANGED <<store, tempVerifier, cache>>
    /\ UNCHANGED pkceFrame

\* Mutant of AuthCodeExchangeFailed: the stored verifier is removed.
AuthCodeExchangeFailed_DropsVerifier(t) ==
    /\ ppc[t] = "awc_exchange"
    /\ PkceEnd(t)
    /\ verifierItem' = 0
    /\ tempVerifier' = FALSE
    /\ UNCHANGED <<generated, urls, exchange>>
    /\ UNCHANGED <<store, cache>>
    /\ UNCHANGED pkceFrame

\* authenticateWithCode: exchangeCodeForToken() throws; the verifier stays.
AuthCodeExchangeFailed(t) ==
    /\ ppc[t] = "awc_exchange"
    /\ PkceEnd(t)
    /\ UNCHANGED <<verifierItem, generated, urls, exchange>>
    /\ UNCHANGED <<store, tempVerifier, cache>>
    /\ UNCHANGED pkceFrame

\* authenticateWithCode: client.setTokens() completes;
\* LocalStorage.removeItem(CODE_VERIFIER_KEY) is awaited.
AuthCodeSetTokens(t) ==
    /\ ppc[t] = "awc_setTokens"
    /\ \E r \in TokenResponses(code[t]) : store' = TokenSetOf(r, now)
    /\ PkceGoto(t, "awc_removeItem")
    /\ UNCHANGED <<verifierItem, generated, urls, exchange>>
    /\ UNCHANGED <<tempVerifier, cache>>
    /\ UNCHANGED pkceFrame

\* authenticateWithCode: the verifier kept in LocalStorage is removed; the
\* access token is returned.
AuthCodeRemoveItem(t) ==
    /\ ppc[t] = "awc_removeItem"
    /\ verifierItem' = 0
    /\ tempVerifier' = FALSE
    /\ PkceEnd(t)
    /\ UNCHANGED <<generated, urls, exchange>>
    /\ UNCHANGED <<store, cache>>
    /\ UNCHANGED pkceFrame

\* login: client.authorizationRequest() resolves with a fresh PKCE pair,
\* kept in locals; the requests up to the authorize GET follow.
PkceLoginAuthorizationRequest(t) ==
    /\ ppc[t] = "pl_authorizationRequest"
    /\ generated < MaxAttempts
    /\ generated' = generated + 1
    /\ codeVerifier' = [codeVerifier EXCEPT ![t] = generated + 1]
    /\ ppc' = [ppc EXCEPT ![t] = "pl_authorize"]
    /\ UNCHANGED <<code, verifierItem, urls, exchange>>
    /\ UNCHANGED <<store, tempVerifier, cache>>
    /\ UNCHANGED pkceFrame

\* login: one of the three requests fails and login throws, or the authorize
\* request, made with this request's challenge, is answered with a code,
\* which is sent for exchange with the local verifier.
PkceLoginAuthorize(t) ==
    /\ ppc[t] = "pl_authorize"
    /\ \/ /\ PkceEnd(t)
          /\ UNCHANGED exchange
       \/ /\ code' = [code EXCEPT ![t] = codeVerifier[t]]
          /\ exchange' = [code |-> codeVerifier[t], codeVerifier |-> codeVerifier[t]]
          /\ ppc' = [ppc EXCEPT ![t] = "pl_exchange"]
          /\ UNCHANGED codeVerifier
    /\ UNCHANGED <<verifierItem, generated, urls>>
    /\ UNCHANGED <<store, tempVerifier, cache>>
    /\ UNCHANGED pkceFrame

\* Mutant of PkceLoginExchange: a rejected exchange empties the store.
PkceLoginExchange_ClearsOnFailure(t) ==
    /\ ppc[t] = "pl_exchange"
    /\ \/ PkceGoto(t, "pl_setTokens") /\ UNCHANGED store
       \/ PkceEnd(t) /\ store' = NoTokenSet
    /\ UNCHANGED <<verifierItem, generated, urls, exchange>>
    /\ UNCHANGED <<tempVerifier, cache>>
    /\ UNCHANGED pkceFrame

\* login: exchangeCodeForToken() resolves, client.setTokens() is awaited; or
\* it throws and so does login.
PkceLoginExchange(t) ==
    /\ ppc[t] = "pl_exchange"
    /\ \/ PkceGoto(t, "pl_setTokens")
       \/ PkceEnd(t)
    /\ UNCHANGED <<verifierItem, generated, urls, exchange>>
    /\ UNCHANGED <<store, tempVerifier, cache>>
    /\ UNCHANGED pkceFrame

\* login: client.setTokens() completes; the access token is returned.
PkceLoginSetTokens(t) ==
    /\ ppc[t] = "pl_setTokens"
    /\ \E r \in TokenResponses(code[t]) : store' = TokenSetOf(r, now)
    /\ PkceEnd(t)
    /\ UNCHANGED <<verifierItem, generated, urls, exchange>>
    /\ UNCHANGED <<tempVerifier, cache>>
    /\ UNCHANGED pkceFrame

\* logout: client.removeTokens() completes.
PkceLogoutRemoveTokens(t) ==
    /\ ppc[t] = "plo_removeTokens"
    /\ store' = NoTokenSet
    /\ PkceGoto(t, "plo_removeItem")
    /\ UNCHANGED <<verifierItem, generated, urls, exchange>>
    /\ UNCHANGED <<tempVerifier, cache>>
    /\ UNCHANGED pkceFrame

\* logout: LocalStorage.removeItem(CODE_VERIFIER_KEY) completes; clearCache().
PkceLogoutRemoveItem(t) ==
    /\ ppc[t] = "plo_removeItem"
    /\ verifierItem' = 0
    /\ tempVerifier' = FALSE
    /\ cache' = FALSE
    /\ PkceGoto(t, "plo_verify")
    /\ UNCHANGED <<generated, urls, exchange>>
    /\ UNCHANGED store
    /\ UNCHANGED pkceFrame

\* logout: the verification after the timer; a token set found then is
\* removed again, and logout returns.
PkceLogoutVerify(t) ==
    /\ ppc[t] = "plo_verify"
    /\ store' = NoTokenSet
    /\ PkceEnd(t)
    /\ UNCHANGED <<verifierItem, generated, urls, exchange>>
    /\ UNCHANGED <<tempVerifier, cache>>
    /\ UNCHANGED pkceFrame

PkceInit ==
    /\ AuthIdle
    /\ serial = FALSE
    /\ StorageIdle
    /\ CookiesIdle
    /\ PkceIdle
    /\ HelpersIdle

PkceNext ==
    \/ \E t \in Tasks : PkceCall(t)
    \/ \E t \in Tasks : GetUrlAuthorizationRequest(t)
    \/ \E t \in Tasks : GetUrlSetItem(t)
    \/ \E t \in Tasks : AuthCodeGetItem(t)
    \/ \E t \in Tasks : AuthCodeExchangeOk(t)
    \/ \E t \in Tasks : AuthCodeExchangeFailed(t)
    \/ \E t \in Tasks : AuthCodeSetTokens(t)
    \/ \E t \in Tasks : AuthCodeRemoveItem(t)
    \/ \E t \in Tasks : PkceLoginAuthorizationRequest(t)
    \/ \E t \in Tasks : PkceLoginAuthorize(t)
    \/ \E t \in Tasks : PkceLoginExchange(t)
    \/ \E t \in Tasks : PkceLoginSetTokens(t)
    \/ \E t \in Tasks : PkceLogoutRemoveTokens(t)
    \/ \E t \in Tasks : PkceLogoutRemoveItem(t)
    \/ \E t \in Tasks : PkceLogoutVerify(t)

SpecPkce == PkceInit /\ [][PkceNext]_vars

\* ------------------------------------------ extractAuthenticityToken(html)
\* The login page is a sequence of markup tokens: "<tag", an attribute
\* name="value" (whitespace before it), and ">".
Attr(n, v) == [attr |-> n, val |-> v]
Open(tag) == [attr |-> "<", val |-> tag]
Close == [attr |-> ">", val |-> ""]

\* Attribute values of the pages: the empty string and two tokens.
CsrfValues == {"", "t1", "t2"}

\* The tags of the pages: the hidden field and the meta tag, each with its
\* two attributes in one order or the other.
Tags ==
    UNION {{<<Open("input"), Attr("name", "authenticity_token"), Attr("value", v), Close>>,
            <<Open("input"), Attr("value", v), Attr("name", "authenticity_token"), Close>>,
            <<Open("meta"), Attr("name", "csrf-token"), Attr("content", v), Close>>,
            <<Open("meta"), Attr("content", v), Attr("name", "csrf-token"), Close>>} :
                v \in CsrfValues}

\* The pages of at most n tags.
RECURSIVE Pages(_)
Pages(n) ==
    IF n = 0 THEN {<<>>}
    ELSE Pages(n - 1) \cup {p \o tag : p \in Pages(n - 1), tag \in Tags}

\* html.match(/name="<name>"\s+<second>="([^"]+)"/): the leftmost place where
\* the attribute name="<name>" is followed, after whitespace only, by the
\* attribute <second> with a value that is not empty; group 1 is that value.
Match(text, name, second) ==
    LET at == {i \in 1..(Len(text) - 1) :
                  /\ text[i] = Attr("name", name)
                  /\ text[i + 1].attr = second
                  /\ text[i + 1].val # ""}
    IN IF at = {} THEN NoMatch
       ELSE [found |-> TRUE, token |-> text[Min(at) + 1].val]

extractAuthenticityToken(text) ==
    LET inputMatch == Match(text, "authenticity_token", "value")
        metaMatch == Match(text, "csrf-token", "content")
    IN IF inputMatch.found THEN inputMatch
       ELSE IF metaMatch.found THEN metaMatch
       ELSE NoMatch

\* login() has fetched a login page and read its body.
CsrfInit ==
    /\ AuthIdle
    /\ serial = TRUE
    /\ StorageIdle
    /\ CookiesIdle
    /\ PkceIdle
    /\ html \in Pages(MaxTags)
    /\ authenticityToken = <<>>
    /\ dateNow = 0
    /\ expiresAtArg = 0
    /\ expired = "not called"

\* login() calls extractAuthenticityToken on the body.
ExtractAuthenticityToken ==
    /\ authenticityToken = <<>>
    /\ authenticityToken' = <<extractAuthenticityToken(html)>>
    /\ UNCHANGED <<html, dateNow, expiresAtArg, expired>>
    /\ UNCHANGED <<authVars, serial, storageVars, cookieVars, pkceVars>>

CsrfNext == ExtractAuthenticityToken

SpecCsrf == CsrfInit /\ [][CsrfNext]_vars

\* ---------------------------------------------- isTokenExpired(expiresAt)
\* Date.now() >= expiresAt
isTokenExpired(expiresAt) == dateNow >= expiresAt

\* A caller holds an expiry at most one minute past the buffer ahead of the
\* latest time of the clock.
ExpiryInit ==
    /\ AuthIdle
    /\ serial = TRUE
    /\ StorageIdle
    /\ CookiesIdle
    /\ PkceIdle
    /\ html = <<>>
    /\ authenticityToken = <<>>
    /\ dateNow = 0
    /\ expiresAtArg \in 0..(MaxClock + BufferMinutes + 1)
    /\ expired = "not called"

IsTokenExpired ==
    /\ expired = "not called"
    /\ expired' = IF isTokenExpired(expiresAtArg) THEN "expired" ELSE "not expired"
    /\ UNCHANGED <<html, authenticityToken, dateNow, expiresAtArg>>
    /\ UNCHANGED <<authVars, serial, storageVars, cookieVars, pkceVars>>

\* A minute passes; the result of an earlier call is forgotten.
ExpiryTick ==
    /\ dateNow < MaxClock
    /\ dateNow' = dateNow + 1
    /\ expired' = "not called"
    /\ UNCHANGED <<html, authenticityToken, expiresAtArg>>
    /\ UNCHANGED <<authVars, serial, storageVars, cookieVars, pkceVars>>

ExpiryNext == IsTokenExpired \/ ExpiryTick

SpecExpiry == ExpiryInit /\ [][ExpiryNext]_vars

\* ------------------------------------------------- logout.tsx: Command
\* The user runs the Logout command, or a command that calls
\* getAccessToken(); each runs up to its first await.
CommandCall(t) ==
    /\ pc[t] = "idle"
    /\ \A u \in Tasks : u < t => pc[u] # "idle"
    /\ serial => \A u \in Tasks : pc[u] = "idle"
    /\ \A u \in Tasks : pc[u] # "done"
    /\ \/ /\ pc' = [pc EXCEPT ![t] = "lc_isAuthenticated"]
          /\ result' = [result EXCEPT ![t] = Pending("Logout command")]
       \/ /\ pc' = [pc EXCEPT ![t] = FirstPc("getAccessToken")]
          /\ result' = [result EXCEPT ![t] = Pending("getAccessToken")]
    /\ log' = [log EXCEPT ![t] = <<>>]
    /\ UNCHANGED <<tokenSet, resp, store, tempVerifier, cache, now, issued, serial>>
    /\ UNCHANGED otherVars

\* Mutant of CommandIsAuthenticated: any stored set counts as logged in.
CommandIsAuthenticated_AnySet(t) ==
    /\ pc[t] = "lc_isAuthenticated"
    /\ IF store # NoTokenSet
         THEN Goto(t, "lc_removeTokens",
                   <<GetTokens(store), "toast: Logging out...", "logout()">>)
         ELSE Finish(t, <<GetTokens(store), "toast: Not logged in">>, "void", 0, "")
    /\ UNCHANGED <<store, tempVerifier, cache, now, issued, serial>>

\* await isAuthenticated(): not authenticated, the command shows "Not
\* logged in" and returns; authenticated, it shows "Logging out..." and
\* calls logout(), which awaits client.removeTokens().
CommandIsAuthenticated(t) ==
    /\ pc[t] = "lc_isAuthenticated"
    /\ \E b \in isAuthenticatedValue(store, now) :
        IF b THEN Goto(t, "lc_removeTokens",
                       <<GetTokens(store), "toast: Logging out...", "logout()">>)
        ELSE Finish(t, <<GetTokens(store), "toast: Not logged in">>, "void", 0, "")
    /\ UNCHANGED <<store, tempVerifier, cache, now, issued, serial>>

\* logout(): client.removeTokens() completes.
CommandLogoutRemoveTokens(t) ==
    /\ pc[t] = "lc_removeTokens"
    /\ store' = NoTokenSet
    /\ Goto(t, "lc_removeItem", <<"removeTokens">>)
    /\ UNCHANGED <<tempVerifier, cache, now, issued, serial>>

\* logout(): LocalStorage.removeItem(CODE_VERIFIER_KEY) completes;
\* clearCache(); the timer is awaited, then client.getTokens().
CommandLogoutRemoveItem(t) ==
    /\ pc[t] = "lc_removeItem"
    /\ tempVerifier' = FALSE
    /\ cache' = FALSE
    /\ Goto(t, "lc_getTokens", <<"removeItem", "clearCache">>)
    /\ UNCHANGED <<store, now, issued, serial>>

\* logout(): the verification finds no set and logout returns, the command
\* awaits isAuthenticated(); or it finds one and removes again.
CommandLogoutGetTokens(t) ==
    /\ pc[t] = "lc_getTokens"
    /\ IF store = NoTokenSet
         THEN Goto(t, "lc_verify", <<GetTokens(store)>>)
         ELSE Goto(t, "lc_forceRemove", <<GetTokens(store)>>)
    /\ UNCHANGED <<store, tempVerifier, cache, now, issued, serial>>

\* logout(): the second client.removeTokens() completes; the timer and the
\* final client.getTokens() are awaited.
CommandLogoutForceRemove(t) ==
    /\ pc[t] = "lc_forceRemove"
    /\ store' = NoTokenSet
    /\ Goto(t, "lc_finalGetTokens", <<"removeTokens">>)
    /\ UNCHANGED <<tempVerifier, cache, now, issued, serial>>

\* logout(): what the final verification finds is only logged; logout
\* returns and the command awaits isAuthenticated().
CommandLogoutFinalGetTokens(t) ==
    /\ pc[t] = "lc_finalGetTokens"
    /\ Goto(t, "lc_verify", <<GetTokens(store)>>)
    /\ UNCHANGED <<store, tempVerifier, cache, now, issued, serial>>

\* The second isAuthenticated(): still authenticated, the command throws
\* and its catch shows "Logout failed"; else it shows "Logged out".
CommandVerify(t) ==
    /\ pc[t] = "lc_verify"
    /\ \E b \in isAuthenticatedValue(store, now) :
        IF b THEN Finish(t, <<"toast: Logout failed">>, "void", 0, "")
        ELSE Finish(t, <<"toast: Logged out">>, "void", 0, "")
    /\ UNCHANGED <<store, tempVerifier, cache, now, issued, serial>>

CommandNext ==
    \/ \E t \in Tasks : CommandCall(t)
    \/ \E t \in Tasks : Return(t)
    \/ Tick
    \/ \E t \in Tasks : CommandIsAuthenticated(t)
    \/ \E t \in Tasks : CommandLogoutRemoveTokens(t)
    \/ \E t \in Tasks : CommandLogoutRemoveItem(t)
    \/ \E t \in Tasks : CommandLogoutGetTokens(t)
    \/ \E t \in Tasks : CommandLogoutForceRemove(t)
    \/ \E t \in Tasks : CommandLogoutFinalGetTokens(t)
    \/ \E t \in Tasks : CommandVerify(t)
    \/ \E t \in Tasks : EnsureNoTokens(t)
    \/ \E t \in Tasks : EnsureReturnStored(t)
    \/ \E t \in Tasks : EnsureStartRefresh(t)
    \/ \E t \in Tasks : EnsureNoRefreshToken(t)
    \/ \E t \in Tasks : RefreshOk(t)
    \/ \E t \in Tasks : RefreshFailed(t)
    \/ \E t \in Tasks : EnsureSetTokens(t)
    \/ \E t \in Tasks : EnsureRemoveTokens(t)

SpecLogoutCommand == Init /\ [][CommandNext]_vars

\* ================================================================== claims

\* Task t's call returns or throws in this step.
Ends(t) == pc[t] # "done" /\ pc'[t] = "done"

\* A call of op by t has ended and its outcome is still at hand.
Ended(t, op) == pc[t] = "done" /\ result[t].op = op

\* C1: whenever getAccessToken() returns a token, it is either the access
\* token of the stored set, which is then not inside the expiry buffer and is
\* left in the store, or the access token of a refresh response obtained in
\* this same call and saved by it.
C1_ReturnedTokenIsUsable ==
    [][\A t \in Tasks :
        (Ends(t) /\ result'[t].op = "getAccessToken" /\ result'[t].kind = "token") =>
            \/ /\ store # NoTokenSet
               /\ store.exp - now >= BufferMinutes
               /\ result'[t].val = store.id
               /\ store' = store
               /\ ~SeqHas(log'[t], "POST refresh")
            \/ /\ SeqHas(log'[t], "refresh ok")
               /\ resp[t] # NoResponse
               /\ result'[t].val = resp[t].id
               /\ store' = TokenSetOf(resp[t], now)]_vars

\* C1 witness: a getAccessToken() has returned the token of the refresh
\* response it saved.
C1_Witness ==
    \E t \in Tasks :
        /\ Ended(t, "getAccessToken")
        /\ result[t].kind = "token"
        /\ SeqHas(log[t], "setTokens")
        /\ store.id = result[t].val

C4_IsAuthenticatedValue ==
    [][\A t \in Tasks :
        (Ends(t) /\ result'[t].op = "isAuthenticated") =>
            /\ result'[t].kind = "bool"
            /\ store = NoTokenSet => result'[t].val = 0
            /\ (store # NoTokenSet /\ store.exp - now < BufferMinutes) => result'[t].val = 0
            /\ (store # NoTokenSet /\ store.exp - now > BufferMinutes) => result'[t].val = 1]_vars

\* C4 witness: isAuthenticated() has returned false on a stored set.
C4_Witness ==
    \E t \in Tasks :
        /\ Ended(t, "isAuthenticated")
        /\ log[t] = <<"getTokens: set">>
        /\ result[t].val = 0

\* C5: no step of an isAuthenticated() call changes the token store, the
\* temporary code verifier or the cache, or sends a request.
C5_IsAuthenticatedIsPure ==
    [][\A t \in Tasks :
        (pc'[t] # pc[t] /\ result'[t].op = "isAuthenticated") =>
            /\ UNCHANGED <<store, tempVerifier, cache, issued>>
            /\ \A i \in DOMAIN log'[t] : log'[t][i] \in {"getTokens: null", "getTokens: set"}]_vars

\* C5 witness: isAuthenticated() has returned false and the expired set is
\* still stored.
C5_Witness ==
    \E t \in Tasks :
        /\ Ended(t, "isAuthenticated")
        /\ result[t].val = 0
        /\ store # NoTokenSet
        /\ store.exp - now < BufferMinutes

\* C6: once a logout() that ran with no other operation has returned, the
\* token store is empty and isAuthenticated() is false.
C6_LogoutClears ==
    (serial /\ \E t \in Tasks : Ended(t, "logout")) =>
        /\ store = NoTokenSet
        /\ isAuthenticatedValue(store, now) = {FALSE}

\* C6 witness: a logout() run alone has returned, after a token set existed.
C6_Witness ==
    /\ serial
    /\ issued > 0
    /\ \E t \in Tasks : Ended(t, "logout")

\* C7: logout() never returns normally while a token set is stored.
C7_LogoutSucceedsOrFails ==
    [][\A t \in Tasks :
        (Ends(t) /\ result'[t].op = "logout" /\ result'[t].kind = "void") =>
            store' = NoTokenSet]_vars

\* The steps of task t inside logout().
LogoutNext(t) ==
    \/ LogoutRemoveTokens(t)
    \/ LogoutRemoveItem(t)
    \/ LogoutWait(t)
    \/ LogoutVerified(t)
    \/ LogoutStillThere(t)
    \/ LogoutForceRemove(t)
    \/ LogoutForceWait(t)
    \/ LogoutFinalVerify(t)

\* What a logout() does: it removes the set, clears the temporary verifier
\* and the cache, re-reads the store; only if a set is found, it removes
\* again and re-reads once more.
LogoutRetry ==
    <<"removeTokens", "removeItem", "clearCache", "getTokens: set", "removeTokens">>

LogoutRuns ==
    { <<"removeTokens", "removeItem", "clearCache", "getTokens: null">>,
      LogoutRetry \o <<"getTokens: null">>,
      LogoutRetry \o <<"getTokens: set">> }

\* C8: a logout() removes the set, invalidates the cache once, then
\* re-reads; it removes a second time only if the re-read found a set, and
\* never a third time; it can always take its next step.
C8_LogoutSteps ==
    \A t \in Tasks :
        result[t].op = "logout" =>
            /\ \E r \in LogoutRuns : IsPrefix(log[t], r)
            /\ pc[t] = "done" => log[t] \in LogoutRuns
            /\ SeqHas(log[t], "clearCache") => ~cache
            /\ pc[t] # "done" => (ENABLED LogoutNext(t) \/ \E u \in Tasks : pc[u] = "done")

\* C8 witness: a logout() that had to remove twice has returned.
C8_Witness ==
    \E t \in Tasks :
        /\ Ended(t, "logout")
        /\ Len(log[t]) = Len(LogoutRetry) + 1

\* C9: two getAccessToken() calls that read the same expired set never both
\* have a refresh request in flight.
C9_OneRefreshInFlight ==
    \A t, u \in Tasks :
        (t # u /\ pc[t] = "e_refresh" /\ pc[u] = "e_refresh") =>
            tokenSet[t] # tokenSet[u]

\* C10: a getAccessToken() or login() never removes a token set other than
\* the one it read, and never replaces the stored set by an older result.
C10_NoStaleWrite ==
    [][\A t \in Tasks :
        (pc'[t] # pc[t] /\ store' # store /\ result[t].op \in {"getAccessToken", "login"}) =>
            /\ store' = NoTokenSet => store.id = tokenSet[t]
            /\ store' # NoTokenSet => store'.id > store.id]_vars
\* C11: when a saveTokens() and a clearTokens() have both finished,
\* LocalStorage holds no token key at all, or exactly the fields of that
\* saveTokens().
C11_NoTornStore ==
    \A t, u \in Tasks :
        (/\ spc[t] = Done /\ call[t].op = "saveTokens" /\ ~caught[t]
         /\ spc[u] = Done /\ call[u].op = "clearTokens" /\ ~caught[u]) =>
            ls \in {EmptyStorage, StoredBy(call[t])}

\* What a login() does up to and including each of its requests.
LoginToPage == <<"authorizationRequest", "GET login page">>
LoginToSubmit == LoginToPage \o <<"page ok", "POST login">>
LoginToAuthorize == LoginToSubmit \o <<"login 200 or 302", "GET authorize">>
LoginToExchange == LoginToAuthorize \o <<"location with code", "POST exchange">>

\* Task t of login() receives the response o in this step.
Receives(t, o) ==
    /\ result[t].op = "login"
    /\ log'[t] # log[t]
    /\ SeqHas(log'[t], o)
    /\ ~SeqHas(log[t], o)

\* Receiving response o ends the login() of t with an error, run being all
\* it did; nothing is written and no token is issued.
Fatal(t, o, run) ==
    Receives(t, o) =>
        /\ Ends(t)
        /\ result'[t].kind = "error"
        /\ log'[t] = run \o <<o>>
        /\ UNCHANGED <<store, tempVerifier, cache, issued>>

\* C12: a login page from which no CSRF token is extracted ends login() with
\* an error; the login page request is the only request made, and nothing is
\* written to the store.
C12_NoCsrfTokenNoPost ==
    [][\A t \in Tasks : Fatal(t, "page without csrf token", LoginToPage)]_vars

\* C12 witness: a login() has failed on a page without CSRF token.
C12_Witness ==
    \E t \in Tasks :
        /\ Ended(t, "login")
        /\ result[t].err = "NoCsrfToken"
        /\ SeqHas(log[t], "page without csrf token")

\* C13: an authorize response without Location header, or whose Location
\* does not parse or has no code, ends login() with an error: the authorize
\* request is the last thing the login() did, so no token exchange is
\* requested and no token set is saved.
C13_NoCodeNoExchange ==
    [][\A t \in Tasks :
        (result[t].op = "login" /\ log'[t] # log[t]) =>
            /\ Fatal(t, "no location", LoginToAuthorize)
            /\ Fatal(t, "unparseable location", LoginToAuthorize)
            /\ Fatal(t, "location without code", LoginToAuthorize)
            /\ Ends(t) /\ result'[t].err \in {"NoLocation", "NoCode"} =>
                    /\ ~SeqHas(log'[t], "POST exchange")
                    /\ ~SeqHas(log'[t], "setTokens")]_vars

\* C13 witness: a login() has failed on a Location without code.
C13_Witness ==
    \E t \in Tasks :
        /\ Ended(t, "login")
        /\ result[t].err = "NoCode"
        /\ SeqHas(log[t], "location without code")

\* All a login() can have done when it returns or throws.
LoginRuns ==
    { LoginToPage \o <<"page not ok">>,
      LoginToPage \o <<"page without csrf token">>,
      LoginToSubmit \o <<"login other status">>,
      LoginToAuthorize \o <<"no location">>,
      LoginToAuthorize \o <<"unparseable location">>,
      LoginToAuthorize \o <<"location without code">>,
      LoginToExchange \o <<"exchange failed">>,
      LoginToExchange \o <<"exchange ok", "setTokens">> }

\* C14: the requests of a login() come in the order login page, credentials,
\* authorize, exchange, save, each after the answer to the one before and
\* each at most once; a login() that returns a token has made them all.
C14_LoginIsSequential ==
    \A t \in Tasks :
        result[t].op = "login" =>
            /\ \E r \in LoginRuns : IsPrefix(log[t], r)
            /\ pc[t] = "done" => log[t] \in LoginRuns
            /\ (pc[t] = "done" /\ result[t].kind = "token") =>
                    log[t] = LoginToExchange \o <<"exchange ok", "setTokens">>

\* C14 witness: a login() has saved its token set and returned.
C14_Witness ==
    \E t \in Tasks :
        /\ Ended(t, "login")
        /\ result[t].kind = "token"
        /\ store.id = result[t].val

\* C15: a login page answer that is not ok, and a credentials answer whose
\* status is neither 200 nor 302, end login() with an error: no later request
\* is made and the credentials are posted once.
C15_FatalStatuses ==
    [][\A t \in Tasks :
        /\ Fatal(t, "page not ok", LoginToPage)
        /\ Fatal(t, "login other status", LoginToSubmit)]_vars

\* C15 witness: a login() has failed on rejected credentials.
C15_Witness ==
    \E t \in Tasks :
        /\ Ended(t, "login")
        /\ result[t].err = "LoginFailed"
        /\ log[t] = LoginToSubmit \o <<"login other status">>

ValuesOf(text, n) ==
    LET at == SelectSeq(text, LAMBDA x : x.k = "pair" /\ x.n = n)
    IN [i \in DOMAIN at |-> at[i].v]

\* The values the responses, in the order of their arrival, set cookie n to.
ValuesSet(n) ==
    LET at == SelectSeq(pageSetCookies \o loginSetCookies, LAMBDA c : c.n = n)
    IN [i \in DOMAIN at |-> at[i].v]

\* A response that sets no cookie name twice.
SetsOnce(cs) == \A i, j \in DOMAIN cs : cs[i].n = cs[j].n => i = j

\* C16: when no response sets a cookie name twice, the Cookie header of the
\* authorize request carries each cookie name at most once, with the value
\* of the latest response that set it.
C16_LastWriteWins ==
    (cookieStep = "GET authorize" /\ SetsOnce(pageSetCookies) /\ SetsOnce(loginSetCookies)) =>
        \A n \in CookieNames :
            /\ Len(ValuesOf(loginCookies, n)) <= 1
            /\ ValuesSet(n) # <<>> =>
                ValuesOf(loginCookies, n) = <<ValuesSet(n)[Len(ValuesSet(n))]>>

\* C17: every cookie name set by the login page response or by the login
\* response is in the Cookie header of the authorize request.
C17_CookiesAreKept ==
    cookieStep = "GET authorize" =>
        \A n \in CookieNames :
            ValuesSet(n) # <<>> => ValuesOf(loginCookies, n) # <<>>

\* C19: every token exchange request carries, with the code, the verifier
\* of the authorization request that the code was issued for.
C19_VerifierMatchesCode ==
    exchange # NoExchange => exchange.codeVerifier = exchange.code

\* C20: a getStoredTokens() that ran right after a saveTokens(), with no
\* other call in between or overlapping, returns what was saved: the two
\* tokens, the expiry (createdAt + expiresIn) and the verifier given, or no
\* verifier if none was given.
C20_RoundTrip ==
    \A t \in Tasks :
        (/\ serial /\ lastSave # NoCall
         /\ spc[t] = Done /\ call[t].op = "getStoredTokens" /\ ~caught[t]) =>
            ret[t] = [access_token |-> lastSave.accessToken,
                      refresh_token |-> lastSave.refreshToken,
                      expires_at |-> (lastSave.createdAt + lastSave.expiresIn) * MsPerSecond,
                      code_verifier |-> lastSave.codeVerifier]

\* The keys getStoredTokens() needs for a Token Set.
RequiredKeys == {"ACCESS_TOKEN", "REFRESH_TOKEN", "EXPIRES_AT"}

\* C21: a getStoredTokens() that found a required key missing, whether the
\* store was left partial by a failed saveTokens() or clearTokens() or
\* never held the key, or whose LocalStorage read rejected, has returned
\* null; it has no other outcome than a return.
C21_PartialIsAbsent ==
    \A t \in Tasks :
        (call[t].op = "getStoredTokens" /\ spc[t] = Done) =>
            /\ caught[t] => ret[t] = NoStoredTokens
            /\ (\E k \in RequiredKeys : ls[k] = Undefined) => ret[t] = NoStoredTokens
            /\ (\E k \in RequiredKeys : got[t][k] = Undefined) => ret[t] = NoStoredTokens

\* A getStoredTokens() has returned null from a store that holds an access
\* token but no expiry.
C21_Witness ==
    \E t \in Tasks :
        /\ call[t].op = "getStoredTokens" /\ spc[t] = Done /\ ~caught[t]
        /\ ls["ACCESS_TOKEN"] # Undefined /\ ls["EXPIRES_AT"] = Undefined
        /\ ret[t] = NoStoredTokens

\* C22: once a clearTokens() has returned, and until the next saveTokens()
\* starts, LocalStorage holds none of the four keys, a getStoredTokens()
\* returns null, and a further clearTokens() leaves the store empty at
\* every step.
C22_ClearIsIdempotent ==
    cleared # "no" =>
        /\ ls = EmptyStorage
        /\ \A t \in Tasks :
            (call[t].op = "getStoredTokens" /\ spc[t] = Done) =>
                ret[t] = NoStoredTokens

\* A second clearTokens() in a row has returned.
C22_Witness ==
    \E t \in Tasks :
        /\ cleared = "again" /\ saves > 0
        /\ call[t].op = "clearTokens" /\ spc[t] = Done /\ ~caught[t]
        /\ ls = EmptyStorage

\* The values of the authenticity_token fields of the page, their two
\* attributes in either order.
FormFieldValues ==
    {html[i].val : i \in {j \in 1..(Len(html) - 1) :
        /\ html[j].attr = "value" /\ html[j].val # ""
        /\ html[j + 1] = Attr("name", "authenticity_token")}}
    \cup
    {html[i + 1].val : i \in {j \in 1..(Len(html) - 1) :
        /\ html[j] = Attr("name", "authenticity_token")
        /\ html[j + 1].attr = "value" /\ html[j + 1].val # ""}}

\* The values of the authenticity_token fields written value first.
ValueFirstFields ==
    {html[i].val : i \in {j \in 1..(Len(html) - 1) :
        /\ html[j].attr = "value" /\ html[j].val # ""
        /\ html[j + 1] = Attr("name", "authenticity_token")}}

\* The values of the csrf-token meta tags of the page.
MetaValues ==
    {html[i].val : i \in {j \in 1..(Len(html) - 1) :
        /\ html[j].attr = "content" /\ html[j].val # ""
        /\ html[j + 1] = Attr("name", "csrf-token")}}
    \cup
    {html[i + 1].val : i \in {j \in 1..(Len(html) - 1) :
        /\ html[j] = Attr("name", "csrf-token")
        /\ html[j + 1].attr = "content" /\ html[j + 1].val # ""}}

\* C23: isTokenExpired(expiresAt) says expired whenever expiresAt is not
\* more than the 5 minute buffer after now.
C23_ExpiryHasBuffer ==
    expired # "not called" =>
        (expiresAtArg <= dateNow + BufferMinutes => expired = "expired")

\* C24: from a page whose only authenticity_token field is written value
\* first, the extractor returns the value of that field.
C24_EitherAttributeOrder ==
    \A v \in CsrfValues :
        (authenticityToken # <<>> /\ FormFieldValues = {v} /\ ValueFirstFields = {v}) =>
            authenticityToken[1] = [found |-> TRUE, token |-> v]

\* C25: from a page with an authenticity_token field the extractor returns
\* the value of the field, whether a csrf-token meta tag comes before it,
\* after it or not at all; without a field it returns the value of the meta
\* tag; with neither it returns null.
C25_FormFieldFirst ==
    authenticityToken # <<>> =>
        /\ \A v \in CsrfValues :
            FormFieldValues = {v} => authenticityToken[1] = [found |-> TRUE, token |-> v]
        /\ \A v \in CsrfValues :
            (FormFieldValues = {} /\ MetaValues = {v}) =>
                authenticityToken[1] = [found |-> TRUE, token |-> v]
        /\ (FormFieldValues = {} /\ MetaValues = {}) => authenticityToken[1] = NoMatch

\* What a getAccessToken() whose refresh failed has done: the refresh
\* request was rejected, or the expired set had no refresh token and no
\* request was sent.
RefreshFailedIn(l) ==
    \/ SeqHas(l, "refresh failed")
    \/ Len(l) > 1 /\ l[1] = "getTokens: set" /\ ~SeqHas(l, "POST refresh")

\* C26: when a getAccessToken() whose refresh failed (rejected request, or
\* no refresh token in the expired set) has ended, it has thrown and the
\* token store is empty.
C26_RefreshFailureDestroys ==
    \A t \in Tasks :
        (Ended(t, "getAccessToken") /\ RefreshFailedIn(log[t])) =>
            /\ result[t].kind = "error"
            /\ store = NoTokenSet

\* C26 witness: a getAccessToken() on an expired set without refresh token
\* has thrown.
C26_Witness ==
    \E t \in Tasks :
        /\ Ended(t, "getAccessToken")
        /\ log[t] = <<"getTokens: set", "removeTokens">>
        /\ result[t].kind = "error"

\* C27: when a getAccessToken() that refreshed has ended, it has returned a
\* token, and the stored set is the set of the refresh response with that
\* access token: its access token, its refresh token and the expiry counted
\* from now.
C27_RefreshReplacesWholesale ==
    \A t \in Tasks :
        (Ended(t, "getAccessToken") /\ SeqHas(log[t], "refresh ok")) =>
            /\ result[t].kind = "token"
            /\ \E r \in TokenResponses(result[t].val) : store = TokenSetOf(r, now)

\* C27 witness: a getAccessToken() has refreshed a set that was stored
\* before and returned the new token.
C27_Witness ==
    \E t \in Tasks :
        /\ Ended(t, "getAccessToken")
        /\ log[t] = <<"getTokens: set", "POST refresh", "refresh ok", "setTokens">>
        /\ result[t].val = store.id
        /\ store.id > 1

\* C28: once a logout() has emptied the store and returned, no step of a
\* getAccessToken() that is still running puts a token set into the store.
C28_LogoutNotUndone ==
    [][\A t \in Tasks :
        (/\ result[t].op = "getAccessToken" /\ pc'[t] # pc[t]
         /\ store = NoTokenSet /\ ~cache
         /\ \A u \in Tasks : result[u].op # "logout") =>
            store' = NoTokenSet]_vars

\* The awaits of login() and of authenticateWithCode().
LoginAwaits == {"pl_authorizationRequest", "pl_authorize", "pl_exchange", "pl_setTokens"}
AuthCodeAwaits == {"awc_getItem", "awc_exchange", "awc_setTokens", "awc_removeItem"}

\* C29: a step of login() or authenticateWithCode() changes the token
\* store only as the client.setTokens() that follows a successful token
\* exchange; every step that ends the call before that (a request of the
\* login flow failed, no verifier is stored, the exchange was rejected)
\* leaves the store as it is.
C29_FailureLeavesStore ==
    [][\A t \in Tasks :
        (ppc'[t] # ppc[t] /\ ppc[t] \in LoginAwaits \cup AuthCodeAwaits) =>
            /\ store' # store => ppc[t] \in {"pl_setTokens", "awc_setTokens"}
            /\ ppc'[t] = "pl_setTokens" => ppc[t] = "pl_exchange"
            /\ ppc'[t] = "awc_setTokens" => ppc[t] = "awc_exchange"
            /\ (ppc'[t] = "idle" /\ ppc[t] \notin {"pl_setTokens", "awc_removeItem"}) =>
                    store' = store]_vars

\* C29 witness: a token exchange that the provider rejects was sent, the
\* calls have ended and the token set stored before is still there.
C29_Witness ==
    /\ exchange # NoExchange
    /\ exchange.code # exchange.codeVerifier
    /\ \A t \in Tasks : ppc[t] = "idle"
    /\ store # NoTokenSet

\* C30: authenticateWithCode() that finds no verifier stored ends without
\* sending an exchange request; a failed exchange leaves the stored
\* verifier as it is; the call that exchanged successfully removes it; and
\* once none is stored only getAuthorizationUrl() stores one again.
C30_VerifierLifecycle ==
    [][\A t \in Tasks :
        ppc'[t] # ppc[t] =>
            /\ (ppc[t] = "awc_getItem" /\ verifierItem = 0) =>
                    (ppc'[t] = "idle" /\ exchange' = exchange /\ verifierItem' = 0)
            /\ (ppc[t] = "awc_getItem" /\ verifierItem # 0) =>
                    (ppc'[t] = "awc_exchange" /\ exchange'.codeVerifier = verifierItem)
            /\ (ppc[t] = "awc_exchange" /\ ppc'[t] = "idle") => verifierItem' = verifierItem
            /\ ppc[t] = "awc_removeItem" => verifierItem' = 0
            /\ (verifierItem = 0 /\ verifierItem' # 0) => ppc[t] = "gau_setItem"
            /\ (ppc[t] \in AuthCodeAwaits /\ verifierItem' # verifierItem) =>
                    ppc[t] = "awc_removeItem"]_vars

\* C30 witness: an authenticateWithCode() has succeeded and removed the
\* verifier: a token set is stored, no verifier is, no call is running.
C30_Witness ==
    /\ verifierItem = 0
    /\ urls # {}
    /\ exchange # NoExchange
    /\ exchange.code = exchange.codeVerifier
    /\ exchange.code \in urls
    /\ store # NoTokenSet
    /\ \A t \in Tasks : ppc[t] = "idle"

\* C31: a getAccessToken() whose client.getTokens() finds a set that is not
\* expired ends in that step: it returns the access token of the stored
\* set, has sent no request, and leaves the store as it is.
C31_ValidTokenReturnedUntouched ==
    [][\A t \in Tasks :
        (/\ pc[t] = "e_getTokens" /\ pc'[t] # pc[t]
         /\ store # NoTokenSet /\ isExpired(store, now) = {FALSE}) =>
            /\ pc'[t] = "done"
            /\ result'[t] = [op |-> "getAccessToken", kind |-> "token",
                              val |-> store.id, err |-> ""]
            /\ log'[t] = <<"getTokens: set">>
            /\ UNCHANGED <<store, issued>>]_vars

\* C31 witness: a getAccessToken() has returned the token of the stored
\* set without a request; the set is still stored and not expired.
C31_Witness ==
    \E t \in Tasks :
        /\ Ended(t, "getAccessToken")
        /\ log[t] = <<"getTokens: set">>
        /\ result[t].kind = "token"
        /\ result[t].val = store.id
        /\ isExpired(store, now) = {FALSE}

\* C32: the Logout command that finds a stored but expired token set shows
\* "Not logged in" and returns without calling logout(): the stored set,
\* the cache and the temporary verifier stay as they are.  The command
\* enters logout() only from a set that is not expired, and changes the
\* store or the cache only inside logout().
C32_LogoutOnlyWhenAuthenticated ==
    [][\A t \in Tasks :
        (result[t].op = "Logout command" /\ pc'[t] # pc[t] /\ pc[t] # "done") =>
            /\ (/\ pc[t] = "lc_isAuthenticated"
                /\ store # NoTokenSet /\ isExpired(store, now) = {TRUE}) =>
                    /\ pc'[t] = "done"
                    /\ log'[t] = <<"getTokens: set", "toast: Not logged in">>
                    /\ UNCHANGED <<store, cache, tempVerifier>>
            /\ pc'[t] = "lc_removeTokens" =>
                    (store # NoTokenSet /\ FALSE \in isExpired(store, now))
            /\ (store' # store \/ cache' # cache) => SeqHas(log[t], "logout()")]_vars

\* C32 witness: the Logout command has reported "Not logged in" on an
\* expired set, which is still stored with its refresh token; the cache
\* still holds data.
C32_Witness ==
    \E t \in Tasks :
        /\ Ended(t, "Logout command")
        /\ log[t] = <<"getTokens: set", "toast: Not logged in">>
        /\ store # NoTokenSet /\ store.rt
        /\ isExpired(store, now) = {TRUE}
        /\ cache
====
